---- MODULE Spec2Model ----
(***************************************************************************)
(* Render contracts of four view components of the dashboard:              *)
(*   - DomMutationRow  (replay DOM-mutation timeline row)                  *)
(*   - Default         (stack-frame "default" line)                        *)
(*   - EventEvidence   (event evidence panel)                              *)
(*   - OrganizationRepositoriesContainer (repository settings container)   *)
(* Each component is a function of its props, re-invoked by the host       *)
(* runtime whenever the props change; the state of the model is the props  *)
(* the host last passed, the tree the component returned for them, and the *)
(* effects of the last DOM event dispatched on that tree.                  *)
(***************************************************************************)
EXTENDS Integers, Sequences, FiniteSets

VARIABLES
    \* ---- DomMutationRow ----
    mutations,          \* the Extraction frames of the list, in list order
    currentTime,        \* prop currentTime: number
    currentHoverTime,   \* prop currentHoverTime: number | undefined
    rows,               \* what DomMutationRow returned for each mutation
    lastEvent,          \* the DOM event dispatched last
    calls,              \* the calls the handlers of the last event made, in order
    reachedParent,      \* whether the last event reached an enclosing click handler
    \* ---- Default (stack-frame line) ----
    lineProps,          \* the props the host passed last
    line,               \* what Default returned for them
    \* ---- EventEvidence ----
    registry,           \* getConfigForIssueType: (issueCategory, issueType) -> config
    typeMap,            \* getIssueCategoryAndTypeFromOccurrenceType: occurrence type -> key
    evProps,            \* the props {event, group, projectSlug} the host passed last
    evOut,              \* what EventEvidence returned for them
    evTrace,            \* the collaborators EventEvidence called, in order
    \* ---- OrganizationRepositoriesContainer ----
    mockResponses,      \* MockApiClient: url -> body
    mounted,            \* whether the container has been rendered
    fetches,            \* url -> "pending" | "resolved", once mounted
    loaded,             \* url -> the body the container has received
    container           \* what the container renders

rowVars == <<mutations, currentTime, currentHoverTime, rows, lastEvent, calls, reachedParent>>
lineVars == <<lineProps, line>>
evVars == <<registry, typeMap, evProps, evOut, evTrace>>
repoVars == <<mockResponses, mounted, fetches, loaded, container>>

vars == <<rowVars, lineVars, evVars, repoVars>>

-----------------------------------------------------------------------------
(* JavaScript values *)

Undefined == [tag |-> "undefined"]
Null == [tag |-> "null"]
Num(n) == [tag |-> "number", val |-> n]
Arr(items) == [tag |-> "array", items |-> items]

-----------------------------------------------------------------------------
(* Bounds *)

MaxTime == 3
MaxRows == 3
MaxRepeats == 2
MaxEvidence == 2
MaxRepos == 3
MaxProviders == 2

Times == 0..MaxTime
HoverTimes == {Undefined} \cup {Num(t) : t \in Times}

-----------------------------------------------------------------------------
(* DomMutationRow *)

\* A replay frame: its position in the list identifies it, offsetMs is its
\* offset into the replay timeline.
Frame(i, off) == [id |-> i, offsetMs |-> off]

\* The extraction process yields frames in timeline order.
IsSorted(offs) == \A i \in 1..(Len(offs) - 1) : offs[i] <= offs[i + 1]

RECURSIVE SeqsUpTo(_, _)
SeqsUpTo(S, n) ==
    IF n = 0 THEN {<<>>}
    ELSE LET shorter == SeqsUpTo(S, n - 1)
         IN  shorter \cup {Append(s, x) : s \in {t \in shorter : Len(t) = n - 1}, x \in S}

MutationLists ==
    {[i \in 1..Len(offs) |-> Frame(i, offs[i])] :
        offs \in {o \in SeqsUpTo(Times, MaxRows) : Len(o) >= 1 /\ IsSorted(o)}}

hasOccurredStrict(time, frame) == time > frame.offsetMs
hasOccurredReversed(time, frame) == time <= frame.offsetMs

hasOccurred(time, frame) == time >= frame.offsetMs

isBeforeHoverNoUndefined(hover, frame) ==
    hover # Undefined /\ hover.val >= frame.offsetMs

isBeforeHover(hover, frame) ==
    hover = Undefined \/ hover.val >= frame.offsetMs

\* classnames(): the keys of the object whose value is truthy.
classNames(flags) == {k \in DOMAIN flags : flags[k]}

RowClassesHoverUnguarded(hover, time, frame) ==
    classNames([beforeCurrentTime |-> hasOccurred(time, frame),
                afterCurrentTime  |-> ~hasOccurred(time, frame),
                beforeHoverTime   |-> isBeforeHover(hover, frame),
                afterHoverTime    |-> ~isBeforeHover(hover, frame)])

RowClasses(hover, time, frame) ==
    classNames([beforeCurrentTime |-> hasOccurred(time, frame),
                afterCurrentTime  |-> ~hasOccurred(time, frame),
                beforeHoverTime   |-> hover # Undefined /\ isBeforeHover(hover, frame),
                afterHoverTime    |-> hover # Undefined /\ ~isBeforeHover(hover, frame)])

\* The tree the component returns: the class list of the list item, the
\* hasOccurred prop of the icon wrapper and of the title, and the frame its
\* three handlers close over.
DomMutationRow(hover, time, frame) ==
    [className    |-> RowClasses(hover, time, frame),
     iconOccurred |-> hasOccurred(time, frame),
     titleOccurred |-> hasOccurred(time, frame),
     frame        |-> frame]

RenderRows(hover, time, muts) ==
    [i \in 1..Len(muts) |-> DomMutationRow(hover, time, muts[i])]

Call(fn, frame) == [fn |-> fn, arg |-> frame]
StopPropagation == [fn |-> "event.stopPropagation"]

onMouseEnter(frame) == <<Call("handleMouseEnter", frame)>>
onMouseLeave(frame) == <<Call("handleMouseLeave", frame)>>

TimestampOnClickNoStop(frame) == <<Call("onClickTimestamp", frame)>>

TimestampOnClick(frame) == <<StopPropagation, Call("onClickTimestamp", frame)>>

\* A click bubbles to the enclosing elements unless a handler stopped it.
Bubbles(effects) == \A k \in 1..Len(effects) : effects[k] # StopPropagation

NoEvent == [type |-> "none", row |-> 0]

\* The replay plays on: the host re-renders the list with a later currentTime.
PlaybackAdvance ==
    \E t \in Times :
        /\ t > currentTime
        /\ currentTime' = t
        /\ rows' = RenderRows(currentHoverTime, t, mutations)
        /\ UNCHANGED <<mutations, currentHoverTime, lastEvent, calls, reachedParent>>
        /\ UNCHANGED <<lineVars, evVars, repoVars>>

\* The caller seeks: the host re-renders the list with any currentTime.
Seek ==
    \E t \in Times :
        /\ t # currentTime
        /\ currentTime' = t
        /\ rows' = RenderRows(currentHoverTime, t, mutations)
        /\ UNCHANGED <<mutations, currentHoverTime, lastEvent, calls, reachedParent>>
        /\ UNCHANGED <<lineVars, evVars, repoVars>>

\* The caller moves or clears the hover cursor.
HoverChange ==
    \E h \in HoverTimes :
        /\ h # currentHoverTime
        /\ currentHoverTime' = h
        /\ rows' = RenderRows(h, currentTime, mutations)
        /\ UNCHANGED <<mutations, currentTime, lastEvent, calls, reachedParent>>
        /\ UNCHANGED <<lineVars, evVars, repoVars>>

MouseEnter ==
    \E i \in 1..Len(rows) :
        /\ lastEvent' = [type |-> "mouseenter", row |-> i]
        /\ calls' = onMouseEnter(rows[i].frame)
        /\ reachedParent' = FALSE
        /\ UNCHANGED <<mutations, currentTime, currentHoverTime, rows>>
        /\ UNCHANGED <<lineVars, evVars, repoVars>>

MouseLeave ==
    \E i \in 1..Len(rows) :
        /\ lastEvent' = [type |-> "mouseleave", row |-> i]
        /\ calls' = onMouseLeave(rows[i].frame)
        /\ reachedParent' = FALSE
        /\ UNCHANGED <<mutations, currentTime, currentHoverTime, rows>>
        /\ UNCHANGED <<lineVars, evVars, repoVars>>

ClickTimestamp ==
    \E i \in 1..Len(rows) :
        /\ lastEvent' = [type |-> "click-timestamp", row |-> i]
        /\ calls' = TimestampOnClick(rows[i].frame)
        /\ reachedParent' = Bubbles(TimestampOnClick(rows[i].frame))
        /\ UNCHANGED <<mutations, currentTime, currentHoverTime, rows>>
        /\ UNCHANGED <<lineVars, evVars, repoVars>>

\* A click elsewhere on the row: the list item has no click handler.
ClickRow ==
    \E i \in 1..Len(rows) :
        /\ lastEvent' = [type |-> "click-row", row |-> i]
        /\ calls' = <<>>
        /\ reachedParent' = Bubbles(<<>>)
        /\ UNCHANGED <<mutations, currentTime, currentHoverTime, rows>>
        /\ UNCHANGED <<lineVars, evVars, repoVars>>

NextRow ==
    \/ PlaybackAdvance
    \/ Seek
    \/ HoverChange
    \/ MouseEnter
    \/ MouseLeave
    \/ ClickTimestamp
    \/ ClickRow



-----------------------------------------------------------------------------
(* Default: the stack-frame line *)

RepeatValues == {Undefined, Null} \cup {Num(n) : n \in (0 - MaxRepeats)..MaxRepeats}

LineProps ==
    [frame : {"frame"},
     nextFrame : {"nextFrame"},
     platform : {"python", "javascript"},
     isHoverPreviewed : BOOLEAN,
     isExpanded : BOOLEAN,
     timesRepeated : RepeatValues,
     isUsedForGrouping : BOOLEAN,
     leadsToApp : BOOLEAN]

\* app/utils defined(): neither undefined nor null.
defined(item) == item # Undefined /\ item # Null

\* The badge: a title built by tn() from the count, and the count itself.
RepeatedFrames(n) ==
    [title |-> [fn |-> "tn",
                singular |-> "Frame repeated %s time",
                plural |-> "Frame repeated %s times",
                count |-> n],
     content |-> n]

renderRepeatsFromZero(timesRepeated) ==
    IF defined(timesRepeated) /\ timesRepeated.val >= 0
    THEN RepeatedFrames(timesRepeated.val)
    ELSE Null

renderRepeats(timesRepeated) ==
    IF defined(timesRepeated) /\ timesRepeated.val > 0
    THEN RepeatedFrames(timesRepeated.val)
    ELSE Null

\* The tree Default returns: the wrapper's class, the three children of the
\* centred block (a null child renders nothing) and the expander.
Default(p) ==
    [className |-> "title",
     leadHint  |-> [isExpanded |-> p.isExpanded,
                    nextFrame  |-> p.nextFrame,
                    leadsToApp |-> p.leadsToApp],
     title     |-> [frame |-> p.frame,
                    platform |-> p.platform,
                    isHoverPreviewed |-> p.isHoverPreviewed,
                    isUsedForGrouping |-> p.isUsedForGrouping],
     repeats   |-> renderRepeats(p.timesRepeated),
     expander  |-> [isExpanded |-> p.isExpanded,
                    isHoverPreviewed |-> p.isHoverPreviewed,
                    platform |-> p.platform]]

\* The stack trace is re-rendered with another repeat count for the frame.
LineRepeatsChange ==
    \E n \in RepeatValues :
        /\ n # lineProps.timesRepeated
        /\ lineProps' = [lineProps EXCEPT !.timesRepeated = n]
        /\ line' = Default(lineProps')
        /\ UNCHANGED <<rowVars, evVars, repoVars>>

\* The user expands or collapses the frame, or previews it on hover.
LineToggle ==
    \E e \in BOOLEAN, h \in BOOLEAN :
        /\ <<e, h>> # <<lineProps.isExpanded, lineProps.isHoverPreviewed>>
        /\ lineProps' = [lineProps EXCEPT !.isExpanded = e, !.isHoverPreviewed = h]
        /\ line' = Default(lineProps')
        /\ UNCHANGED <<rowVars, evVars, repoVars>>

\* Any other change of the props.
LineRender ==
    \E p \in LineProps :
        /\ p # lineProps
        /\ lineProps' = p
        /\ line' = Default(p)
        /\ UNCHANGED <<rowVars, evVars, repoVars>>

NextLine ==
    \/ LineRepeatsChange
    \/ LineToggle
    \/ LineRender

-----------------------------------------------------------------------------
(* EventEvidence: the evidence panel *)

\* The (issueCategory, issueType) pairs of the issue-type registry.
IssueKeys ==
    {[issueCategory |-> "error", issueType |-> "error"],
     [issueCategory |-> "performance", issueType |-> "n_plus_one"],
     [issueCategory |-> "performance", issueType |-> "slow_db"]}

OccurrenceTypes == {"occ_a", "occ_b"}

\* What a registry entry's .evidence can be: absent, or a title and a help text.
EvidenceConfigs == {Null, [title |-> "Evidence", helpText |-> "help"]}

Registries == [IssueKeys -> [evidence : EvidenceConfigs]]
TypeMaps == [OccurrenceTypes -> IssueKeys]

EvidenceItems ==
    {[name |-> "n1", value |-> "v1"],
     [name |-> "n2", value |-> "v2"]}

EvidenceDisplays == {Undefined} \cup {Arr(items) : items \in SeqsUpTo(EvidenceItems, MaxEvidence)}

Occurrences ==
    {Undefined, Null} \cup [type : OccurrenceTypes, evidenceDisplay : EvidenceDisplays]

Events == [occurrence : Occurrences, isProfilingIssue : BOOLEAN]
Groups == {Undefined} \cup IssueKeys
ProjectSlugs == {"project-a", "project-b"}

\* !x for the values an occurrence, a config or a group can be.
Falsy(x) == x = Undefined \/ x = Null

\* eventIsProfilingIssue(event): a predicate of the event, decided outside.
eventIsProfilingIssue(event) == event.isProfilingIssue

Called(fn, arg) == [fn |-> fn, arg |-> arg]

ProfileEventEvidence(event, projectSlug) ==
    [component |-> "ProfileEventEvidence", event |-> event, projectSlug |-> projectSlug]

KeyValueList(evidenceDisplay) ==
    [data |-> [i \in 1..Len(evidenceDisplay.items) |->
                 [subject |-> evidenceDisplay.items[i].name,
                  key     |-> evidenceDisplay.items[i].name,
                  value   |-> evidenceDisplay.items[i].value]],
     shouldSort |-> FALSE]

EventDataSection(config, evidenceDisplay) ==
    [component |-> "EventDataSection",
     title     |-> config.title,
     type      |-> "evidence",
     help      |-> config.helpText,
     list      |-> KeyValueList(evidenceDisplay)]

\* group ?? getIssueCategoryAndTypeFromOccurrenceType(event.occurrence.type):
\* the right-hand side is evaluated only when no group is supplied.
IssueKeyOf(event, group, tm) ==
    IF ~Falsy(group) THEN group ELSE tm[event.occurrence.type]

IssueKeyTrace(event, group) ==
    IF ~Falsy(group) THEN <<>>
    ELSE <<Called("getIssueCategoryAndTypeFromOccurrenceType",
                  [occurrenceType |-> event.occurrence.type])>>

\* !evidenceDisplay?.length
NoLength(evidenceDisplay) ==
    evidenceDisplay = Undefined \/ Len(evidenceDisplay.items) = 0

\* Variants of EventEvidence with one slip each.
EventEvidenceKeepsEmptyList(event, group, projectSlug, reg, tm) ==
    IF Falsy(event.occurrence) THEN [out |-> Null, trace |-> <<>>]
    ELSE IF eventIsProfilingIssue(event)
    THEN [out |-> ProfileEventEvidence(event, projectSlug),
          trace |-> <<Called("eventIsProfilingIssue", [event |-> event])>>]
    ELSE LET key == IssueKeyOf(event, group, tm)
             config == reg[key].evidence
             evidenceDisplay == event.occurrence.evidenceDisplay
             trace == <<Called("eventIsProfilingIssue", [event |-> event])>>
                      \o IssueKeyTrace(event, group)
                      \o <<Called("getConfigForIssueType", key)>>
         IN  IF evidenceDisplay = Undefined \/ Falsy(config)
             THEN [out |-> Null, trace |-> trace]
             ELSE [out |-> EventDataSection(config, evidenceDisplay), trace |-> trace]

EventEvidenceProfilingFirst(event, group, projectSlug, reg, tm) ==
    IF eventIsProfilingIssue(event)
    THEN [out |-> ProfileEventEvidence(event, projectSlug),
          trace |-> <<Called("eventIsProfilingIssue", [event |-> event])>>]
    ELSE IF Falsy(event.occurrence)
    THEN [out |-> Null, trace |-> <<Called("eventIsProfilingIssue", [event |-> event])>>]
    ELSE LET key == IssueKeyOf(event, group, tm)
             config == reg[key].evidence
             evidenceDisplay == event.occurrence.evidenceDisplay
             trace == <<Called("eventIsProfilingIssue", [event |-> event])>>
                      \o IssueKeyTrace(event, group)
                      \o <<Called("getConfigForIssueType", key)>>
         IN  IF NoLength(evidenceDisplay) \/ Falsy(config)
             THEN [out |-> Null, trace |-> trace]
             ELSE [out |-> EventDataSection(config, evidenceDisplay), trace |-> trace]

EventEvidenceIgnoresGroup(event, group, projectSlug, reg, tm) ==
    IF Falsy(event.occurrence) THEN [out |-> Null, trace |-> <<>>]
    ELSE IF eventIsProfilingIssue(event)
    THEN [out |-> ProfileEventEvidence(event, projectSlug),
          trace |-> <<Called("eventIsProfilingIssue", [event |-> event])>>]
    ELSE LET key == tm[event.occurrence.type]
             config == reg[key].evidence
             evidenceDisplay == event.occurrence.evidenceDisplay
             trace == <<Called("eventIsProfilingIssue", [event |-> event]),
                        Called("getIssueCategoryAndTypeFromOccurrenceType",
                               [occurrenceType |-> event.occurrence.type]),
                        Called("getConfigForIssueType", key)>>
         IN  IF NoLength(evidenceDisplay) \/ Falsy(config)
             THEN [out |-> Null, trace |-> trace]
             ELSE [out |-> EventDataSection(config, evidenceDisplay), trace |-> trace]

\* EventEvidence: what it returns, and the collaborators it called on the way.
EventEvidence(event, group, projectSlug, reg, tm) ==
    IF Falsy(event.occurrence) THEN [out |-> Null, trace |-> <<>>]
    ELSE IF eventIsProfilingIssue(event)
    THEN [out |-> ProfileEventEvidence(event, projectSlug),
          trace |-> <<Called("eventIsProfilingIssue", [event |-> event])>>]
    ELSE LET key == IssueKeyOf(event, group, tm)
             config == reg[key].evidence
             evidenceDisplay == event.occurrence.evidenceDisplay
             trace == <<Called("eventIsProfilingIssue", [event |-> event])>>
                      \o IssueKeyTrace(event, group)
                      \o <<Called("getConfigForIssueType", key)>>
         IN  IF NoLength(evidenceDisplay) \/ Falsy(config)
             THEN [out |-> Null, trace |-> trace]
             ELSE [out |-> EventDataSection(config, evidenceDisplay), trace |-> trace]

EvidenceProps == [event : Events, group : Groups, projectSlug : ProjectSlugs]

RenderEvidence(p) == EventEvidence(p.event, p.group, p.projectSlug, registry, typeMap)

\* The page shows another event of the same issue.
EvidenceEventChange ==
    \E e \in Events :
        /\ e # evProps.event
        /\ evProps' = [evProps EXCEPT !.event = e]
        /\ evOut' = RenderEvidence(evProps').out
        /\ evTrace' = RenderEvidence(evProps').trace
        /\ UNCHANGED <<registry, typeMap>>
        /\ UNCHANGED <<rowVars, lineVars, repoVars>>

\* The group arrives, or the panel is shown without one.
EvidenceGroupChange ==
    \E g \in Groups :
        /\ g # evProps.group
        /\ evProps' = [evProps EXCEPT !.group = g]
        /\ evOut' = RenderEvidence(evProps').out
        /\ evTrace' = RenderEvidence(evProps').trace
        /\ UNCHANGED <<registry, typeMap>>
        /\ UNCHANGED <<rowVars, lineVars, repoVars>>

EvidenceProjectChange ==
    \E s \in ProjectSlugs :
        /\ s # evProps.projectSlug
        /\ evProps' = [evProps EXCEPT !.projectSlug = s]
        /\ evOut' = RenderEvidence(evProps').out
        /\ evTrace' = RenderEvidence(evProps').trace
        /\ UNCHANGED <<registry, typeMap>>
        /\ UNCHANGED <<rowVars, lineVars, repoVars>>

NextEvidence ==
    \/ EvidenceEventChange
    \/ EvidenceGroupChange
    \/ EvidenceProjectChange

-----------------------------------------------------------------------------
(* OrganizationRepositoriesContainer: the repository settings container *)

ReposUrl == "/organizations/org-slug/repos/"
ConfigUrl == "/organizations/org-slug/config/repos/"
Urls == {ReposUrl, ConfigUrl}

\* The bodies the two endpoints can answer with; the test answers [] and
\* {providers: []}.
RepoBodies == SUBSET (1..MaxRepos)
ProviderBodies == SUBSET (1..MaxProviders)

LoadingIndicator == [component |-> "LoadingIndicator"]

ContainerViewUntilFirst(status, bodies) ==
    IF \A u \in Urls : status[u] = "pending"
    THEN LoadingIndicator
    ELSE [component |-> "OrganizationRepositories",
          itemList  |-> bodies[ReposUrl],
          providers |-> bodies[ConfigUrl],
          showsEmptyMessage |-> bodies[ReposUrl] = {}]

\* The container: a loading indicator until both fetches have resolved, then
\* the provider connection UI, which shows an explanatory message when there
\* are no repositories.
ContainerView(status, bodies) ==
    IF \E u \in Urls : status[u] = "pending"
    THEN LoadingIndicator
    ELSE [component |-> "OrganizationRepositories",
          itemList  |-> bodies[ReposUrl],
          providers |-> bodies[ConfigUrl],
          showsEmptyMessage |-> bodies[ReposUrl] = {}]

AllPending == [u \in Urls |-> "pending"]
NothingLoaded == [u \in Urls |-> {}]

\* render(<OrganizationRepositoriesContainer .../>): both fetches start.
Mount ==
    /\ ~mounted
    /\ mounted' = TRUE
    /\ fetches' = AllPending
    /\ loaded' = NothingLoaded
    /\ container' = ContainerView(AllPending, NothingLoaded)
    /\ UNCHANGED mockResponses
    /\ UNCHANGED <<rowVars, lineVars, evVars>>

\* One of the two fetches resolves with the mocked body; the container
\* re-renders.
Resolve(u) ==
    /\ mounted
    /\ fetches[u] = "pending"
    /\ fetches' = [fetches EXCEPT ![u] = "resolved"]
    /\ loaded' = [loaded EXCEPT ![u] = mockResponses[u]]
    /\ container' = ContainerView(fetches', loaded')
    /\ UNCHANGED <<mockResponses, mounted>>
    /\ UNCHANGED <<rowVars, lineVars, evVars>>

NextRepos ==
    \/ Mount
    \/ \E u \in Urls : Resolve(u)

-----------------------------------------------------------------------------
(* One specification per component; the other components are not on the    *)
(* page and their variables rest at fixed values.                          *)

\* The mutation list as first rendered, for any list, cursor and hover.
InitRow ==
    /\ mutations \in MutationLists
    /\ currentTime \in Times
    /\ currentHoverTime \in HoverTimes
    /\ rows = RenderRows(currentHoverTime, currentTime, mutations)
    /\ lastEvent = NoEvent
    /\ calls = <<>>
    /\ reachedParent = FALSE
    /\ lineProps = Undefined
    /\ line = Null
    /\ registry = <<>>
    /\ typeMap = <<>>
    /\ evProps = Undefined
    /\ evOut = Null
    /\ evTrace = <<>>
    /\ mockResponses = <<>>
    /\ mounted = FALSE
    /\ fetches = <<>>
    /\ loaded = <<>>
    /\ container = Null

SpecRow == InitRow /\ [][NextRow]_vars

\* The stack-frame line as first rendered, for any props.
InitLine ==
    /\ lineProps \in LineProps
    /\ line = Default(lineProps)
    /\ mutations = <<>>
    /\ currentTime = 0
    /\ currentHoverTime = Undefined
    /\ rows = <<>>
    /\ lastEvent = NoEvent
    /\ calls = <<>>
    /\ reachedParent = FALSE
    /\ registry = <<>>
    /\ typeMap = <<>>
    /\ evProps = Undefined
    /\ evOut = Null
    /\ evTrace = <<>>
    /\ mockResponses = <<>>
    /\ mounted = FALSE
    /\ fetches = <<>>
    /\ loaded = <<>>
    /\ container = Null

SpecLine == InitLine /\ [][NextLine]_vars

\* The evidence panel as first rendered, for any registry and any props.
InitEvidence ==
    /\ registry \in Registries
    /\ typeMap \in TypeMaps
    /\ evProps \in EvidenceProps
    /\ evOut = RenderEvidence(evProps).out
    /\ evTrace = RenderEvidence(evProps).trace
    /\ mutations = <<>>
    /\ currentTime = 0
    /\ currentHoverTime = Undefined
    /\ rows = <<>>
    /\ lastEvent = NoEvent
    /\ calls = <<>>
    /\ reachedParent = FALSE
    /\ lineProps = Undefined
    /\ line = Null
    /\ mockResponses = <<>>
    /\ mounted = FALSE
    /\ fetches = <<>>
    /\ loaded = <<>>
    /\ container = Null

SpecEvidence == InitEvidence /\ [][NextEvidence]_vars

\* After beforeEach: the mock responses are cleared and the two added; the
\* container is not rendered yet.
InitRepos ==
    /\ \E r \in RepoBodies, p \in ProviderBodies :
          mockResponses = [u \in Urls |-> IF u = ReposUrl THEN r ELSE p]
    /\ mounted = FALSE
    /\ fetches = AllPending
    /\ loaded = NothingLoaded
    /\ container = Null
    /\ mutations = <<>>
    /\ currentTime = 0
    /\ currentHoverTime = Undefined
    /\ rows = <<>>
    /\ lastEvent = NoEvent
    /\ calls = <<>>
    /\ reachedParent = FALSE
    /\ lineProps = Undefined
    /\ line = Null
    /\ registry = <<>>
    /\ typeMap = <<>>
    /\ evProps = Undefined
    /\ evOut = Null
    /\ evTrace = <<>>

SpecRepos == InitRepos /\ [][NextRepos]_vars

-----------------------------------------------------------------------------
(* Properties of DomMutationRow, checked under SpecRow *)

CurrentTimeFlags == {"beforeCurrentTime", "afterCurrentTime"}
HoverTimeFlags == {"beforeHoverTime", "afterHoverTime"}

\* C1: for every rendered row, hasOccurred (as handed to the icon and the
\* title) is true iff currentTime >= frame.offsetMs, and exactly one of
\* beforeCurrentTime / afterCurrentTime is on the row: beforeCurrentTime when
\* it has occurred (the boundary currentTime = offsetMs included),
\* afterCurrentTime otherwise.
C1_HasOccurredExclusive ==
    \A i \in 1..Len(rows) :
        LET off == mutations[i].offsetMs
            cls == rows[i].className
        IN  /\ rows[i].iconOccurred = (currentTime >= off)
            /\ rows[i].titleOccurred = (currentTime >= off)
            /\ ("beforeCurrentTime" \in cls) = (currentTime >= off)
            /\ ("afterCurrentTime" \in cls) = (currentTime < off)
            /\ Cardinality(cls \cap CurrentTimeFlags) = 1

\* A list with a row exactly at the playback cursor, flagged as occurred, and a
\* later row flagged as not yet occurred.
C1_Witness ==
    \E i, j \in 1..Len(rows) :
        /\ mutations[i].offsetMs = currentTime
        /\ "beforeCurrentTime" \in rows[i].className
        /\ mutations[j].offsetMs > currentTime
        /\ "afterCurrentTime" \in rows[j].className

\* C2: with no hover cursor (currentHoverTime undefined) isBeforeHover is true
\* for every row and no row carries afterHoverTime, whatever currentTime and
\* frame.offsetMs are.
C2_UndefinedHoverIsBefore ==
    currentHoverTime = Undefined =>
        \A i \in 1..Len(rows) :
            /\ isBeforeHover(currentHoverTime, rows[i].frame)
            /\ "afterHoverTime" \notin rows[i].className

\* No hover cursor, one row already played and one row still ahead.
C2_Witness ==
    /\ currentHoverTime = Undefined
    /\ \E i, j \in 1..Len(rows) :
        /\ mutations[i].offsetMs < currentTime
        /\ mutations[j].offsetMs > currentTime
        /\ "afterHoverTime" \notin rows[j].className

\* C7: the row only forwards events.  A mouse-enter calls handleMouseEnter with
\* the row's frame and nothing else, a mouse-leave calls handleMouseLeave with
\* the row's frame and nothing else, a click on the timestamp button stops the
\* propagation of the click and then calls onClickTimestamp with the row's
\* frame exactly once, so the click never reaches an enclosing click handler;
\* a click elsewhere on the row calls nothing.  The rendered rows are always
\* those of the current props, whatever events were dispatched.
C7_ForwardsEventsOnly ==
    /\ rows = [i \in 1..Len(mutations) |->
                 DomMutationRow(currentHoverTime, currentTime, mutations[i])]
    /\ lastEvent.type = "none" => calls = <<>>
    /\ lastEvent.type = "mouseenter" =>
          calls = <<[fn |-> "handleMouseEnter", arg |-> mutations[lastEvent.row]]>>
    /\ lastEvent.type = "mouseleave" =>
          calls = <<[fn |-> "handleMouseLeave", arg |-> mutations[lastEvent.row]]>>
    /\ lastEvent.type = "click-timestamp" =>
          /\ calls = <<[fn |-> "event.stopPropagation"],
                       [fn |-> "onClickTimestamp", arg |-> mutations[lastEvent.row]]>>
          /\ ~reachedParent
    /\ lastEvent.type = "click-row" => calls = <<>> /\ reachedParent

\* The timestamp of the second row was clicked: onClickTimestamp got that
\* row's frame and the click stayed inside the button.
C7_Witness ==
    /\ lastEvent = [type |-> "click-timestamp", row |-> 2]
    /\ Len(calls) = 2
    /\ calls[2].fn = "onClickTimestamp"
    /\ calls[2].arg.id = 2
    /\ ~reachedParent

\* The class lists one current-time flag combines with at most one hover flag.
FlagCombinations == {{c} \cup h : c \in CurrentTimeFlags, h \in {{}, {"beforeHoverTime"}, {"afterHoverTime"}}}

\* C8: with a hover cursor a row carries exactly one hover flag,
\* beforeHoverTime iff currentHoverTime >= frame.offsetMs and afterHoverTime
\* iff currentHoverTime < frame.offsetMs; without a hover cursor it carries
\* neither.  The hover flags are decided by currentHoverTime alone and the
\* current-time flags by currentTime alone: no row has both hover flags, and
\* each of the six combinations of one current-time flag with zero or one hover
\* flag is the class list of some props.
C8_HoverFlags ==
    /\ \A i \in 1..Len(rows) :
        LET off == mutations[i].offsetMs
            cls == rows[i].className
        IN  /\ currentHoverTime # Undefined =>
                  /\ ("beforeHoverTime" \in cls) = (currentHoverTime.val >= off)
                  /\ ("afterHoverTime" \in cls) = (currentHoverTime.val < off)
                  /\ Cardinality(cls \cap HoverTimeFlags) = 1
            /\ currentHoverTime = Undefined => cls \cap HoverTimeFlags = {}
            /\ cls \cap CurrentTimeFlags =
                  (IF currentTime >= off THEN {"beforeCurrentTime"} ELSE {"afterCurrentTime"})
            /\ HoverTimeFlags \cap cls # HoverTimeFlags
    /\ \A combo \in FlagCombinations :
        \E h \in HoverTimes, t \in Times, off \in Times :
            RowClasses(h, t, Frame(1, off)) = combo

\* A row that has occurred while the hover cursor is still before it: a
\* current-time flag combined with the opposite hover flag.
C8_Witness ==
    \E i \in 1..Len(rows) :
        /\ currentHoverTime # Undefined
        /\ currentHoverTime.val < mutations[i].offsetMs
        /\ mutations[i].offsetMs <= currentTime
        /\ rows[i].className = {"beforeCurrentTime", "afterHoverTime"}

BeforeCurrentIsPrefix ==
    \A i, j \in 1..Len(rows) :
        (i < j /\ "beforeCurrentTime" \in rows[j].className)
            => "beforeCurrentTime" \in rows[i].className

BeforeHoverIsPrefix ==
    currentHoverTime # Undefined =>
        \A i, j \in 1..Len(rows) :
            (i < j /\ "beforeHoverTime" \in rows[j].className)
                => "beforeHoverTime" \in rows[i].className

OccurredStaysOccurred ==
    (currentTime' >= currentTime) =>
        \A i \in 1..Len(rows) : rows[i].iconOccurred => rows'[i].iconOccurred

\* C10: in a list whose offsets are non-decreasing, rendered with one
\* currentTime and one currentHoverTime, no afterCurrentTime row precedes a
\* beforeCurrentTime row, and with a hover cursor no afterHoverTime row
\* precedes a beforeHoverTime row; and across renders in which currentTime
\* does not decrease, a row that has occurred stays occurred.
C10_PrefixAndMonotone ==
    /\ [](BeforeCurrentIsPrefix /\ BeforeHoverIsPrefix)
    /\ [][OccurredStaysOccurred]_vars

\* A list cut in two by both cursors: the first row played and hovered past,
\* the last row neither.
C10_Witness ==
    /\ Len(rows) >= 2
    /\ currentHoverTime # Undefined
    /\ rows[1].className = {"beforeCurrentTime", "beforeHoverTime"}
    /\ rows[Len(rows)].className = {"afterCurrentTime", "afterHoverTime"}
    /\ \E i \in 1..Len(rows) : mutations[i].offsetMs > mutations[1].offsetMs

-----------------------------------------------------------------------------
(* Properties of Default, checked under SpecLine *)

\* C3: the line carries the "repeated" badge iff timesRepeated is neither
\* undefined nor null and is greater than zero, and the badge then shows that
\* count; for 0, a negative count, undefined or null renderRepeats returns
\* null.  The lead hint, the title and the expander are rendered either way,
\* from the props handed in.
C3_RepeatBadge ==
    LET tr == lineProps.timesRepeated
        positive == tr \notin {Undefined, Null} /\ tr.val > 0
    IN  /\ (line.repeats # Null) = positive
        /\ positive => line.repeats.content = tr.val /\ line.repeats.title.count = tr.val
        /\ line.leadHint = [isExpanded |-> lineProps.isExpanded,
                            nextFrame  |-> lineProps.nextFrame,
                            leadsToApp |-> lineProps.leadsToApp]
        /\ line.title = [frame |-> lineProps.frame,
                         platform |-> lineProps.platform,
                         isHoverPreviewed |-> lineProps.isHoverPreviewed,
                         isUsedForGrouping |-> lineProps.isUsedForGrouping]
        /\ line.expander = [isExpanded |-> lineProps.isExpanded,
                            isHoverPreviewed |-> lineProps.isHoverPreviewed,
                            platform |-> lineProps.platform]

\* A frame repeated twice shows the badge with 2.
C3_Witness ==
    /\ lineProps.timesRepeated = Num(2)
    /\ line.repeats # Null
    /\ line.repeats.content = 2

-----------------------------------------------------------------------------
(* Properties of EventEvidence, checked under SpecEvidence *)

OccurrenceAbsent == evProps.event.occurrence \in {Undefined, Null}

\* The key the configuration is resolved with: the group's when a group is
\* supplied, the one derived from the occurrence type otherwise.
ExpectedKey ==
    IF evProps.group # Undefined THEN evProps.group
    ELSE typeMap[evProps.event.occurrence.type]

ConfigAbsent == registry[ExpectedKey].evidence = Null

EvidenceListEmpty ==
    \/ evProps.event.occurrence.evidenceDisplay = Undefined
    \/ evProps.event.occurrence.evidenceDisplay.items = <<>>

\* One key/value row per evidence item, in input order, unsorted.
ExpectedRows ==
    LET items == evProps.event.occurrence.evidenceDisplay.items
    IN  [i \in 1..Len(items) |->
            [subject |-> items[i].name, key |-> items[i].name, value |-> items[i].value]]

RendersList ==
    /\ evOut # Null
    /\ evOut.component = "EventDataSection"
    /\ evOut.list.data = ExpectedRows
    /\ evOut.list.shouldSort = FALSE

\* C4 as stated: nothing is rendered when the occurrence is absent, when the
\* resolved configuration is absent or when the evidence list is empty, and
\* one row per item is rendered when all three are present.
C4_AsStated ==
    /\ OccurrenceAbsent => evOut = Null
    /\ ~OccurrenceAbsent =>
          /\ (ConfigAbsent \/ EvidenceListEmpty) => evOut = Null
          /\ (~ConfigAbsent /\ ~EvidenceListEmpty) => RendersList

\* C4, amended: nothing is rendered when the occurrence is absent; for an
\* event with an occurrence that is not a profiling issue, nothing is rendered
\* when the resolved configuration is absent or the evidence list is empty,
\* and one key/value row per item, in input order and unsorted, is rendered
\* when both are present.
C4_EvidenceRows ==
    /\ OccurrenceAbsent => evOut = Null
    /\ (~OccurrenceAbsent /\ ~evProps.event.isProfilingIssue) =>
          /\ (ConfigAbsent \/ EvidenceListEmpty) => evOut = Null
          /\ (~ConfigAbsent /\ ~EvidenceListEmpty) => RendersList

\* Two different evidence items rendered as two rows, first item first.
C4_Witness ==
    /\ ~OccurrenceAbsent
    /\ ~evProps.event.isProfilingIssue
    /\ evProps.event.occurrence.evidenceDisplay # Undefined
    /\ Len(evProps.event.occurrence.evidenceDisplay.items) = 2
    /\ evProps.event.occurrence.evidenceDisplay.items[1].name = "n2"
    /\ evProps.event.occurrence.evidenceDisplay.items[2].name = "n1"
    /\ evOut # Null
    /\ Len(evOut.list.data) = 2
    /\ evOut.list.data[1].value = "v2"

ConfigLookups == {k \in 1..Len(evTrace) : evTrace[k].fn = "getConfigForIssueType"}
TypeLookups ==
    {k \in 1..Len(evTrace) : evTrace[k].fn = "getIssueCategoryAndTypeFromOccurrenceType"}

\* C5: the checks are ordered.  Without an occurrence nothing is rendered and
\* no collaborator is asked, also for a profiling issue; with an occurrence a
\* profiling issue is handed to ProfileEventEvidence with the same event and
\* projectSlug, and neither the registry nor the occurrence type is looked
\* up; the configuration is looked up only for events with an occurrence that
\* are not profiling issues, and for each of them.
C5_OrderedChecks ==
    /\ OccurrenceAbsent => evOut = Null /\ evTrace = <<>>
    /\ (~OccurrenceAbsent /\ evProps.event.isProfilingIssue) =>
          /\ evOut = [component |-> "ProfileEventEvidence",
                      event |-> evProps.event,
                      projectSlug |-> evProps.projectSlug]
          /\ ConfigLookups = {}
          /\ TypeLookups = {}
    /\ (ConfigLookups # {}) = (~OccurrenceAbsent /\ ~evProps.event.isProfilingIssue)

\* A profiling issue with an occurrence whose evidence list is empty and whose
\* configuration is absent is still handed to ProfileEventEvidence.
C5_Witness ==
    /\ ~OccurrenceAbsent
    /\ evProps.event.isProfilingIssue
    /\ EvidenceListEmpty
    /\ ConfigAbsent
    /\ evOut # Null
    /\ evOut.component = "ProfileEventEvidence"
    /\ evOut.projectSlug = "project-b"

\* C9: for an event with an occurrence that is not a profiling issue, the
\* registry is asked once, with the group's (issueCategory, issueType) when a
\* group is supplied and with the pair derived from event.occurrence.type
\* when none is; with a group the occurrence type is not even converted, and
\* the same event with any other occurrence type renders the same.
C9_GroupDecidesKey ==
    (~OccurrenceAbsent /\ ~evProps.event.isProfilingIssue) =>
        /\ Cardinality(ConfigLookups) = 1
        /\ \A k \in ConfigLookups : evTrace[k].arg = ExpectedKey
        /\ evProps.group # Undefined =>
              /\ TypeLookups = {}
              /\ \A t \in OccurrenceTypes :
                    EventEvidence([evProps.event EXCEPT !.occurrence.type = t],
                                  evProps.group, evProps.projectSlug,
                                  registry, typeMap).out = evOut
        /\ evProps.group = Undefined =>
              \A k \in TypeLookups :
                  evTrace[k].arg = [occurrenceType |-> evProps.event.occurrence.type]

\* A group whose type has an evidence configuration, on an event whose
\* occurrence type maps to a type without one: the panel renders.
C9_Witness ==
    /\ ~OccurrenceAbsent
    /\ ~evProps.event.isProfilingIssue
    /\ evProps.group # Undefined
    /\ typeMap[evProps.event.occurrence.type] # evProps.group
    /\ registry[typeMap[evProps.event.occurrence.type]].evidence = Null
    /\ registry[evProps.group].evidence # Null
    /\ evOut # Null
    /\ evOut.component = "EventDataSection"

-----------------------------------------------------------------------------
(* Properties of the repository settings container, checked under SpecRepos *)

SomePending == \E u \in Urls : fetches[u] = "pending"

\* C6: once rendered, the container shows the loading indicator exactly as
\* long as at least one of the two fetches has not resolved, so also on its
\* initial render; it never renders blank output, and with zero repositories
\* and zero providers it ends on the connection UI with its explanatory
\* message.
C6_LoadingUntilBothResolve ==
    mounted =>
        /\ container # Null
        /\ SomePending => container = [component |-> "LoadingIndicator"]
        /\ ~SomePending =>
              /\ container.component = "OrganizationRepositories"
              /\ container.itemList = mockResponses[ReposUrl]
              /\ container.providers = mockResponses[ConfigUrl]
              /\ (mockResponses[ReposUrl] = {}) => container.showsEmptyMessage

\* Both endpoints answer with empty lists, the providers have arrived and the
\* repositories have not: still loading.
C6_Witness ==
    /\ mounted
    /\ mockResponses[ReposUrl] = {}
    /\ mockResponses[ConfigUrl] = {}
    /\ fetches[ConfigUrl] = "resolved"
    /\ fetches[ReposUrl] = "pending"
    /\ container = [component |-> "LoadingIndicator"]

====
